---- MODULE Spec2Model ----
(***************************************************************************)
(* Model of the interview API of main.py: the knowledge base lookup, the   *)
(* six HTTP handlers with their gateway (crew.kickoff) fallbacks, the      *)
(* process-wide session store and the score extraction of                  *)
(* evaluate_response.                                                      *)
(***************************************************************************)
EXTENDS Naturals, Sequences, FiniteSets, TLC

VARIABLES
    current_interview_session, \* the session store: session id -> session
    now,                       \* the clock read by datetime.now()
    gateway_calls,             \* number of crew.kickoff() calls made so far
    session_writes,            \* number of writes to the session store so far
    handled,                   \* number of requests handled so far
    last,                      \* the last request handled and its response
    result_str,                \* score extraction: the generated text
    score                      \* score extraction: the extracted score

vars == <<current_interview_session, now, gateway_calls, session_writes,
          handled, last, result_str, score>>

----------------------------------------------------------------------------
(* Bounds of the model *)

MaxTime == 1

MaxRequests == 2

MaxFragments == 3

----------------------------------------------------------------------------
(* Knowledge base: JavaSpringBootKnowledgeBase._run *)

knowledge_base ==
    [core_java |->
       [junior |-> <<
          "What is the difference between JDK, JRE, and JVM?",
          "Explain the concept of Object-Oriented Programming in Java.",
          "What are the access modifiers in Java?",
          "What is the difference between == and equals() method?",
          "Explain method overloading vs method overriding.">>,
        mid |-> <<
          "Explain the Java Memory Model and garbage collection.",
          "What are design patterns? Implement Singleton pattern.",
          "Discuss multithreading in Java and synchronization.",
          "Explain exception handling hierarchy in Java.",
          "What are Java 8 features like Streams and Lambda expressions?">>,
        senior |-> <<
          "Explain JVM internals and memory management strategies.",
          "Discuss concurrent programming and java.util.concurrent package.",
          "How would you optimize Java application performance?",
          "Explain reflection and its use cases in frameworks.",
          "Discuss design patterns used in enterprise applications.">>],
     spring_boot |->
       [junior |-> <<
          "What is Spring Boot and its advantages?",
          "Explain dependency injection in Spring.",
          "What are Spring Boot annotations like @Component, @Service?",
          "How do you create a REST API in Spring Boot?",
          "What is application.properties file used for?">>,
        mid |-> <<
          "Explain Spring Boot auto-configuration mechanism.",
          "What are different ways to configure Spring Boot application?",
          "Discuss Spring Data JPA and its benefits.",
          "How do you handle exceptions in Spring Boot?",
          "Explain Spring Boot Actuator and its endpoints.">>,
        senior |-> <<
          "How would you implement microservices with Spring Boot?",
          "Discuss Spring Cloud components for distributed systems.",
          "Explain transaction management in Spring Boot.",
          "How do you implement security in Spring Boot applications?",
          "Discuss performance optimization strategies for Spring Boot apps.">>],
     microservices |->
       [mid |-> <<
          "What are microservices and their advantages?",
          "How do you handle inter-service communication?",
          "Explain service discovery patterns.",
          "What is circuit breaker pattern?",
          "How do you manage configuration in microservices?">>,
        senior |-> <<
          "Design a microservices architecture for an e-commerce platform.",
          "How do you handle distributed transactions?",
          "Explain event-driven architecture in microservices.",
          "Discuss monitoring and observability in microservices.",
          "How do you implement API gateway pattern?">>],
     database |->
       [junior |-> <<
          "What is the difference between SQL and NoSQL databases?",
          "Explain JDBC and how to connect to a database in Java.",
          "What are primary keys and foreign keys?",
          "How do you perform CRUD operations with Spring Data JPA?",
          "What is the difference between @Entity and @Table annotations?">>,
        mid |-> <<
          "Explain database connection pooling and its benefits.",
          "What are JPA relationships and how do you map them?",
          "Discuss transaction management in Spring Boot.",
          "How do you optimize database queries in JPA?",
          "Explain the difference between lazy and eager loading.">>,
        senior |-> <<
          "How would you handle database migrations in production?",
          "Discuss database sharding and partitioning strategies.",
          "How do you implement database caching strategies?",
          "Explain distributed transaction patterns like Saga.",
          "How do you monitor and optimize database performance?">>],
     testing |->
       [junior |-> <<
          "What is unit testing and why is it important?",
          "How do you write unit tests with JUnit?",
          "What is the difference between @Test and @TestMethodOrder?",
          "How do you test REST APIs in Spring Boot?",
          "What are assertions in testing?">>,
        mid |-> <<
          "Explain mocking and how to use Mockito.",
          "What is integration testing vs unit testing?",
          "How do you test Spring Boot applications with @SpringBootTest?",
          "Discuss test-driven development (TDD) approach.",
          "How do you test database layers with @DataJpaTest?">>,
        senior |-> <<
          "How do you implement comprehensive testing strategies?",
          "Discuss contract testing and consumer-driven contracts.",
          "How do you test microservices interactions?",
          "Explain performance testing and load testing approaches.",
          "How do you implement continuous testing in CI/CD pipelines?">>]]

NoQuestionsFound == "No questions found for the specified topic and level"

(* json.dumps of a list of strings: the token stream [ "s1" , "s2" ] *)
JsonTok(kind, text) == [kind |-> kind, text |-> text]

RECURSIVE JsonItems(_)
JsonItems(l) ==
    IF l = <<>> THEN <<>>
    ELSE IF Len(l) = 1 THEN <<JsonTok("string", l[1])>>
    ELSE <<JsonTok("string", l[1]), JsonTok(",", "")>> \o JsonItems(Tail(l))

json_dumps(l) == <<JsonTok("[", "")>> \o JsonItems(l) \o <<JsonTok("]", "")>>

(* json.loads of such a token stream: the strings between the brackets *)
RECURSIVE JsonElements(_)
JsonElements(toks) ==
    IF toks = <<>> \/ Head(toks).kind = "]" THEN <<>>
    ELSE IF Head(toks).kind = "string"
         THEN <<Head(toks).text>> \o JsonElements(Tail(toks))
         ELSE JsonElements(Tail(toks))

json_loads(toks) == JsonElements(Tail(toks))

(* the lookup that misses every pair: the sentinel is never produced *)
KnowledgeRunEmptyOnMiss(topic, level) ==
    IF topic \in DOMAIN knowledge_base /\ level \in DOMAIN knowledge_base[topic]
    THEN json_dumps(knowledge_base[topic][level])
    ELSE json_dumps(<<>>)

KnowledgeRun(topic, level) ==
    IF topic \in DOMAIN knowledge_base /\ level \in DOMAIN knowledge_base[topic]
    THEN json_dumps(knowledge_base[topic][level])
    ELSE json_dumps(<<NoQuestionsFound>>)

----------------------------------------------------------------------------
(* Text: a generated text is a sequence of characters (or larger chunks);  *)
(* str(result) joins it into one string.                                   *)

RECURSIVE Join(_)
Join(s) == IF s = <<>> THEN "" ELSE Head(s) \o Join(Tail(s))

RECURSIVE Flatten(_)
Flatten(ss) == IF ss = <<>> THEN <<>> ELSE Head(ss) \o Flatten(Tail(ss))

Whitespace == {" ", "\n", "\t"}

RECURSIVE LStrip(_)
LStrip(s) == IF s # <<>> /\ Head(s) \in Whitespace THEN LStrip(Tail(s)) ELSE s

RECURSIVE RStrip(_)
RStrip(s) ==
    IF s # <<>> /\ s[Len(s)] \in Whitespace
    THEN RStrip(SubSeq(s, 1, Len(s) - 1))
    ELSE s

(* str.strip() *)
Strip(s) == RStrip(LStrip(s))

UpperCase == <<"A","B","C","D","E","F","G","H","I","J","K","L","M",
               "N","O","P","Q","R","S","T","U","V","W","X","Y","Z">>

LowerCase == <<"a","b","c","d","e","f","g","h","i","j","k","l","m",
               "n","o","p","q","r","s","t","u","v","w","x","y","z">>

LowerChar(c) ==
    IF \E k \in 1..26 : UpperCase[k] = c
    THEN LowerCase[CHOOSE k \in 1..26 : UpperCase[k] = c]
    ELSE c

(* str.lower() *)
Lower(s) == [k \in 1..Len(s) |-> LowerChar(s[k])]

(* p in s *)
Contains(s, p) ==
    \E k \in 1..(Len(s) + 1) :
        k + Len(p) - 1 <= Len(s) /\ SubSeq(s, k, k + Len(p) - 1) = p

Digits == <<"0","1","2","3","4","5","6","7","8","9">>

(* f"{i}" for a non-negative integer *)
RECURSIVE DecStr(_)
DecStr(i) ==
    IF i < 10 THEN <<Digits[i + 1]>>
    ELSE DecStr(i \div 10) \o <<Digits[(i % 10) + 1]>>

ScorePrefix == <<"s","c","o","r","e",":"," ">>

RatingPrefix == <<"r","a","t","i","n","g",":"," ">>

OutOfTen == <<"/","1","0">>

DefaultScore == 7

(* the scan that compares the patterns with the text as generated *)
RECURSIVE ScoreScanCaseSensitive(_, _)
ScoreScanCaseSensitive(i, s) ==
    IF i > 10 THEN DefaultScore
    ELSE IF \/ Contains(s, ScorePrefix \o DecStr(i))
            \/ Contains(s, RatingPrefix \o DecStr(i))
         THEN i
    ELSE IF Contains(s, DecStr(i) \o OutOfTen) THEN i
    ELSE ScoreScanCaseSensitive(i + 1, s)

(* the scan that runs from 10 down to 1 *)
RECURSIVE ScoreScanDown(_, _)
ScoreScanDown(i, s) ==
    IF i > 10 THEN DefaultScore
    ELSE IF \/ Contains(Lower(s), ScorePrefix \o DecStr(11 - i))
            \/ Contains(Lower(s), RatingPrefix \o DecStr(11 - i))
         THEN 11 - i
    ELSE IF Contains(s, DecStr(11 - i) \o OutOfTen) THEN 11 - i
    ELSE ScoreScanDown(i + 1, s)

(* evaluate_response, the loop "for i in range(1, 11)" entered at i *)
RECURSIVE ScoreScan(_, _)
ScoreScan(i, s) ==
    IF i > 10 THEN DefaultScore
    ELSE IF \/ Contains(Lower(s), ScorePrefix \o DecStr(i))
            \/ Contains(Lower(s), RatingPrefix \o DecStr(i))
         THEN i
    ELSE IF Contains(s, DecStr(i) \o OutOfTen) THEN i
    ELSE ScoreScan(i + 1, s)

ExtractScore(s) == ScoreScan(1, s)

----------------------------------------------------------------------------
(* Requests and gateway outcomes *)

Names == {"Ann", "Bob"}

Levels == {"junior", "senior"}

FocusAreas == {<<>>, <<"core_java">>, <<"microservices", "database">>}

(* InterviewRequest *)
InterviewRequests ==
    [candidate_name : Names, experience_level : Levels,
     focus_areas : FocusAreas]

(* QuestionResponse *)
QuestionResponses ==
    [question : {"What are the access modifiers in Java?"},
     candidate_answer : {"public and private", ""}]

PathTopics == DOMAIN knowledge_base \cup {"kotlin"}

PathLevels == {"junior", "mid", "senior", "principal"}

(* texts the interviewer persona may generate *)
InterviewerTexts == {<<" ", "Let's talk about the JVM.", "\n">>}

(* texts the evaluator persona may generate *)
EvaluatorTexts ==
    {<<"R","a","t","i","n","g",":"," ","8">>,
     <<"4","/","1","0"," ","S","c","o","r","e",":"," ","2">>,
     <<"G","o","o","d">>}

(* exceptions crew.kickoff() may raise, all subclasses of Exception *)
GatewayErrors == {"AuthenticationError", "TimeoutError"}

NoResult == <<>>

Success(text) == [ok |-> TRUE, result |-> text, error |-> ""]

Failure(e) == [ok |-> FALSE, result |-> NoResult, error |-> e]

GatewayOutcomes(texts) ==
    {Success(t) : t \in texts} \cup {Failure(e) : e \in GatewayErrors}

Range(l) == {l[k] : k \in 1..Len(l)}

RECURSIVE JoinSep(_, _)
JoinSep(l, sep) ==
    IF l = <<>> THEN ""
    ELSE IF Len(l) = 1 THEN l[1]
    ELSE l[1] \o sep \o JoinSep(Tail(l), sep)

Count(l, x) == Cardinality({k \in 1..Len(l) : l[k] = x})

----------------------------------------------------------------------------
(* start_interview *)

DefaultQuestion == "What is your experience with Java development?"

(* request.focus_areas[0] if request.focus_areas else "core_java" *)
TopicOf(request) ==
    IF request.focus_areas # <<>> THEN request.focus_areas[1] ELSE "core_java"

QuestionsFor(request) ==
    json_loads(KnowledgeRun(TopicOf(request), request.experience_level))

(* the values random.choice, or the default, may give selected_question *)
SelectedQuestions(request) ==
    LET questions == QuestionsFor(request)
    IN  IF questions # <<>> /\ questions[1] # NoQuestionsFound
        THEN Range(questions)
        ELSE {DefaultQuestion}

StartTask(request, selected_question) ==
    [description |->
        "You are interviewing " \o request.candidate_name \o ", a "
        \o request.experience_level \o " level Java developer. Focus areas: "
        \o JoinSep(request.focus_areas, ", ")
        \o " Start with this technical question: \"" \o selected_question
        \o "\" Present it in a friendly, professional manner.",
     agent |-> "technical_interviewer",
     expected_output |-> "A professionally presented technical question"]

(* question data carrying a difficulty that is not the request's level *)
StartQuestionDataAdaptive(request, result) ==
    [question |-> Join(Strip(result)),
     question_type |-> "technical",
     difficulty |-> "adaptive",
     topic |-> TopicOf(request)]

StartQuestionData(request, result) ==
    [question |-> Join(Strip(result)),
     question_type |-> "technical",
     difficulty |-> request.experience_level,
     topic |-> TopicOf(request)]

(* f"{request.candidate_name}_{datetime.now().isoformat()}" *)
SessionId(candidate_name, timestamp) == <<candidate_name, "_", timestamp>>

SessionRecord(request, question_data) ==
    [candidate |-> request.candidate_name,
     level |-> request.experience_level,
     focus_areas |-> request.focus_areas,
     questions_asked |-> <<question_data>>,
     responses |-> <<>>]

(* the write that replaces the whole store by the one new session *)
SessionWriteReplacingStore(store, session_id, session) ==
    [id \in {session_id} |-> session]

(* the write that keeps the session already stored under the id *)
SessionWriteKeepingFirst(store, session_id, session) ==
    [id \in DOMAIN store \cup {session_id} |->
        IF id \in DOMAIN store THEN store[id] ELSE session]

(* current_interview_session[session_id] = {...} *)
SessionWrite(store, session_id, session) ==
    [id \in DOMAIN store \cup {session_id} |->
        IF id = session_id THEN session ELSE store[id]]

FallbackWhenEmpty == "Tell me about your Java experience."

(* the fallback that never takes a question from the knowledge base *)
StartFallbackQuestionHardcoded(questions) == FallbackWhenEmpty

(* questions[0] if questions else "Tell me about your Java experience." *)
StartFallbackQuestion(questions) ==
    IF questions # <<>> THEN questions[1] ELSE FallbackWhenEmpty

StartFallback(request) ==
    [question |-> StartFallbackQuestion(QuestionsFor(request)),
     question_type |-> "technical",
     difficulty |-> request.experience_level,
     topic |-> TopicOf(request)]

(* the boundary operations of one start_interview call, in program order *)
StartTrace(ok) ==
    IF ok
    THEN <<"kb_lookup", "gateway_call", "shape_response", "store_write",
           "respond">>
    ELSE <<"kb_lookup", "gateway_call", "kb_lookup", "shape_response",
           "respond">>

----------------------------------------------------------------------------
(* get_next_question, get_coding_question, evaluate_response,              *)
(* get_sample_questions, health_check                                      *)

NextTask(response) ==
    [description |->
        "Based on the candidate's previous answer: \""
        \o response.candidate_answer \o "\" to the question: \""
        \o response.question
        \o "\" Generate the next appropriate technical question.",
     agent |-> "technical_interviewer",
     expected_output |-> "Next appropriate technical question"]

NextQuestionData(result) ==
    [question |-> Join(Strip(result)),
     question_type |-> "technical",
     difficulty |-> "adaptive",
     topic |-> "follow_up"]

NextFallback ==
    [question |->
        "Can you explain a challenging technical problem you've solved recently?",
     question_type |-> "technical",
     difficulty |-> "adaptive",
     topic |-> "problem_solving"]

CodingTask ==
    [description |->
        "Generate a coding challenge question suitable for a Java developer.",
     agent |-> "technical_interviewer",
     expected_output |-> "A coding challenge question with clear requirements"]

CodingQuestionData(result) ==
    [question |-> Join(Strip(result)),
     question_type |-> "coding",
     difficulty |-> "practical",
     topic |-> "programming"]

CodingFallback ==
    [question |->
        "Write a Java method to find the second largest element in an array of integers. Handle edge cases appropriately.",
     question_type |-> "coding",
     difficulty |-> "practical",
     topic |-> "programming"]

EvaluateTask(response) ==
    [description |->
        "Evaluate this candidate's response to a technical question: Question: "
        \o response.question \o " Answer: " \o response.candidate_answer
        \o " Provide: 1. A score from 1-10",
     agent |-> "evaluator",
     expected_output |->
        "Comprehensive evaluation with score, feedback, and suggestions"]

EvaluateFeedback(result) ==
    [score |-> ExtractScore(result),
     feedback |-> Join(result),
     suggestions |-> <<"Practice with more examples",
                       "Review the fundamentals",
                       "Focus on implementation details">>]

FallbackScore == 5

EvaluateFallback ==
    [score |-> FallbackScore,
     feedback |-> "Unable to evaluate response at this time. Please try again.",
     suggestions |-> <<"Review the topic", "Practice more examples">>]

(* the boundary operations of one call of the three other gateway handlers *)
LlmTraceWithRetry(ok) ==
    IF ok
    THEN <<"gateway_call", "shape_response", "respond">>
    ELSE <<"gateway_call", "gateway_call", "shape_response", "respond">>

LlmTrace(ok) == <<"gateway_call", "shape_response", "respond">>

SampleQuestions(topic, level) ==
    [topic |-> topic, level |-> level,
     questions |-> json_loads(KnowledgeRun(topic, level))]

Health(timestamp) == [status |-> "healthy", timestamp |-> timestamp]

(* a handler whose except clause re-raises: the framework answers 500 *)
RespondUncaught(outcome, body, fallback) ==
    IF outcome.ok
    THEN [status |-> 200, body |-> body]
    ELSE [status |-> 500, body |-> [detail |-> "Internal Server Error"]]

(* try: ... return body   except Exception: return fallback *)
Respond(outcome, body, fallback) ==
    IF outcome.ok
    THEN [status |-> 200, body |-> body]
    ELSE [status |-> 200, body |-> fallback]

----------------------------------------------------------------------------
(* The state machine of the handlers *)

NoRequest == [none |-> TRUE]

Handled(endpoint, request, selected, task, outcome, trace, answer) ==
    [endpoint |-> endpoint, request |-> request,
     selected_question |-> selected, task |-> task, outcome |-> outcome,
     trace |-> trace, status |-> answer.status, response |-> answer.body]

NoOutcome == [ok |-> TRUE, result |-> NoResult, error |-> ""]

NoTask == [description |-> "", agent |-> "", expected_output |-> ""]

Init ==
    /\ current_interview_session = <<>>
    /\ now = 0
    /\ gateway_calls = 0
    /\ session_writes = 0
    /\ handled = 0
    /\ last = Handled("none", NoRequest, "", NoTask, NoOutcome, <<>>,
                      [status |-> 0, body |-> NoRequest])
    /\ result_str = <<>>
    /\ score = 0

Tick ==
    /\ now < MaxTime
    /\ now' = now + 1
    /\ UNCHANGED <<current_interview_session, gateway_calls, session_writes,
                   handled, last, result_str, score>>

Serve(record) ==
    /\ handled < MaxRequests
    /\ handled' = handled + 1
    /\ last' = record
    /\ gateway_calls' = gateway_calls + Count(record.trace, "gateway_call")
    /\ session_writes' = session_writes + Count(record.trace, "store_write")
    /\ UNCHANGED <<now, result_str, score>>

start_interview ==
    \E request \in InterviewRequests :
    \E selected_question \in SelectedQuestions(request) :
    \E outcome \in GatewayOutcomes(InterviewerTexts) :
        LET question_data == StartQuestionData(request, outcome.result)
            session_id == SessionId(request.candidate_name, now)
        IN  /\ Serve(Handled("start-interview", request, selected_question,
                             StartTask(request, selected_question), outcome,
                             StartTrace(outcome.ok),
                             Respond(outcome, question_data,
                                     StartFallback(request))))
            /\ current_interview_session' =
                 IF outcome.ok
                 THEN SessionWrite(current_interview_session, session_id,
                                   SessionRecord(request, question_data))
                 ELSE current_interview_session

get_next_question ==
    \E response \in QuestionResponses :
    \E outcome \in GatewayOutcomes(InterviewerTexts) :
        /\ Serve(Handled("next-question", response, "", NextTask(response),
                         outcome, LlmTrace(outcome.ok),
                         Respond(outcome, NextQuestionData(outcome.result),
                                 NextFallback)))
        /\ UNCHANGED current_interview_session

get_coding_question ==
    \E outcome \in GatewayOutcomes(InterviewerTexts) :
        /\ Serve(Handled("coding-question", NoRequest, "", CodingTask,
                         outcome, LlmTrace(outcome.ok),
                         Respond(outcome, CodingQuestionData(outcome.result),
                                 CodingFallback)))
        /\ UNCHANGED current_interview_session

evaluate_response ==
    \E response \in QuestionResponses :
    \E outcome \in GatewayOutcomes(EvaluatorTexts) :
        /\ Serve(Handled("evaluate-response", response, "",
                         EvaluateTask(response), outcome,
                         LlmTrace(outcome.ok),
                         Respond(outcome, EvaluateFeedback(outcome.result),
                                 EvaluateFallback)))
        /\ UNCHANGED current_interview_session

get_sample_questions ==
    \E topic \in PathTopics, level \in PathLevels :
        /\ Serve(Handled("sample-questions", [topic |-> topic, level |-> level],
                         "", NoTask, NoOutcome, <<"kb_lookup", "respond">>,
                         [status |-> 200,
                          body |-> SampleQuestions(topic, level)]))
        /\ UNCHANGED current_interview_session

health_check ==
    /\ Serve(Handled("health", NoRequest, "", NoTask, NoOutcome,
                     <<"respond">>,
                     [status |-> 200, body |-> Health(now)]))
    /\ UNCHANGED current_interview_session

Next ==
    \/ Tick
    \/ start_interview
    \/ get_next_question
    \/ get_coding_question
    \/ evaluate_response
    \/ get_sample_questions
    \/ health_check

Spec == Init /\ [][Next]_vars

----------------------------------------------------------------------------
(* Score extraction applied to generated texts built from fragments *)

ScoreFragments ==
    {<<"S","c","o","r","e",":"," ">>,
     <<"r","a","t","i","n","g",":"," ">>,
     <<"R","a","t","i","n","g",":"," ","8">>,
     <<"1">>, <<"0">>, <<"3">>, <<"9">>,
     <<"/","1","0">>}

ScoreTexts ==
    {Flatten(fs) :
        fs \in UNION {[1..n -> ScoreFragments] : n \in 0..MaxFragments}}

InitScore ==
    /\ current_interview_session = <<>>
    /\ now = 0
    /\ gateway_calls = 0
    /\ session_writes = 0
    /\ handled = 0
    /\ last = Handled("none", NoRequest, "", NoTask, NoOutcome, <<>>,
                      [status |-> 0, body |-> NoRequest])
    /\ result_str \in ScoreTexts
    /\ score = 0

(* the success path of evaluate_response on the generated text result_str *)
extract_score ==
    /\ score = 0
    /\ score' = EvaluateFeedback(result_str).score
    /\ UNCHANGED <<current_interview_session, now, gateway_calls,
                   session_writes, handled, last, result_str>>

NextScore == extract_score

SpecScore == InitScore /\ [][NextScore]_vars

----------------------------------------------------------------------------
(* Properties *)

LlmEndpoints ==
    {"start-interview", "next-question", "coding-question",
     "evaluate-response"}

Present(topic, level) ==
    topic \in DOMAIN knowledge_base /\ level \in DOMAIN knowledge_base[topic]

RequestedTopic(request) ==
    IF Len(request.focus_areas) = 0 THEN "core_java"
    ELSE Head(request.focus_areas)

GatewayFailed == last.endpoint \in LlmEndpoints /\ ~last.outcome.ok

(* C1: when the gateway call raises, each of the four gateway handlers     *)
(* still answers 200 with its fixed fallback payload; for                  *)
(* evaluate-response that is score 5, the "Unable to evaluate" feedback    *)
(* and the two fallback suggestions, whatever the question and answer.     *)
C1_FallbackOnGatewayError ==
    GatewayFailed =>
        /\ last.status = 200
        /\ last.endpoint = "evaluate-response" =>
             /\ last.response.score = 5
             /\ last.response.feedback =
                  "Unable to evaluate response at this time. Please try again."
             /\ last.response.suggestions =
                  <<"Review the topic", "Practice more examples">>
        /\ last.endpoint = "next-question" =>
             last.response =
               [question |->
                  "Can you explain a challenging technical problem you've solved recently?",
                question_type |-> "technical", difficulty |-> "adaptive",
                topic |-> "problem_solving"]
        /\ last.endpoint = "coding-question" =>
             last.response =
               [question |->
                  "Write a Java method to find the second largest element in an array of integers. Handle edge cases appropriately.",
                question_type |-> "coding", difficulty |-> "practical",
                topic |-> "programming"]
        /\ last.endpoint = "start-interview" =>
             LET t == RequestedTopic(last.request)
                 l == last.request.experience_level
             IN  last.response =
                   [question |->
                      IF Present(t, l) THEN knowledge_base[t][l][1]
                      ELSE NoQuestionsFound,
                    question_type |-> "technical", difficulty |-> l,
                    topic |-> t]

C1_Witness ==
    /\ last.endpoint = "evaluate-response"
    /\ ~last.outcome.ok
    /\ last.outcome.error = "TimeoutError"
    /\ last.request.candidate_answer = "public and private"
    /\ last.response.score = 5

(* C2: when the gateway call raises in start-interview and (topic, level)  *)
(* is in the knowledge base, the returned question is one of the table's   *)
(* questions for that pair, typed technical with the request's level and   *)
(* topic; for ["core_java"]/junior it is one of the 5 junior questions.    *)
C2_StartFallbackFromKnowledgeBase ==
    (/\ last.endpoint = "start-interview"
     /\ ~last.outcome.ok
     /\ Present(RequestedTopic(last.request), last.request.experience_level))
    =>
        LET t == RequestedTopic(last.request)
            l == last.request.experience_level
        IN  /\ last.response.question \in Range(knowledge_base[t][l])
            /\ last.response.question_type = "technical"
            /\ last.response.difficulty = l
            /\ last.response.topic = t
            /\ (last.request.focus_areas = <<"core_java">> /\ l = "junior") =>
                 /\ last.response.question \in
                      Range(knowledge_base["core_java"]["junior"])
                 /\ Cardinality(Range(knowledge_base["core_java"]["junior"]))
                      = 5

C2_Witness ==
    /\ last.endpoint = "start-interview"
    /\ ~last.outcome.ok
    /\ last.request.focus_areas = <<"core_java">>
    /\ last.request.experience_level = "junior"
    /\ last.status = 200

(* C3: in start-interview the sentinel string is never the question        *)
(* selected for the prompt nor the question text returned, whatever the    *)
(* gateway outcome.                                                        *)
C3_SentinelNeverReturned ==
    last.endpoint = "start-interview" =>
        /\ last.selected_question # NoQuestionsFound
        /\ last.response.question # NoQuestionsFound

(* the patterns of the score scan that name the integer i *)
ScoreMatches(i, s) ==
    \/ Contains(Lower(s), <<"s","c","o","r","e",":"," ">> \o DecStr(i))
    \/ Contains(Lower(s), <<"r","a","t","i","n","g",":"," ">> \o DecStr(i))
    \/ Contains(s, DecStr(i) \o <<"/","1","0">>)

Extracted == score # 0

(* C4: the score of a generated text is the smallest i in 1..10 whose      *)
(* pattern "score: i" or "rating: i" (in the lower-cased text) or "i/10"   *)
(* (in the text) occurs, 7 when none occurs; it is always in 1..10.        *)
C4_SmallestMatchingScore ==
    Extracted =>
        /\ score \in 1..10
        /\ IF \E i \in 1..10 : ScoreMatches(i, result_str)
           THEN /\ ScoreMatches(score, result_str)
                /\ \A i \in 1..10 : ScoreMatches(i, result_str) => score <= i
           ELSE score = 7

C4_Witness ==
    /\ Extracted
    /\ result_str = <<"R","a","t","i","n","g",":"," ","8","3","/","1","0">>
    /\ score = 3

(* C5 as stated: every generated text containing "Rating: 8" scores 8.     *)
C5_Rating8AlwaysEight ==
    (Extracted
     /\ Contains(result_str, <<"R","a","t","i","n","g",":"," ","8">>))
    => score = 8

(* C5: a generated text containing "Rating: 8" in which no i below 8       *)
(* matches any of the three patterns scores 8.                             *)
C5_Rating8WithoutSmallerMatch ==
    (/\ Extracted
     /\ Contains(result_str, <<"R","a","t","i","n","g",":"," ","8">>)
     /\ \A i \in 1..7 : ~ScoreMatches(i, result_str))
    => score = 8

C5_Witness ==
    /\ Extracted
    /\ result_str = <<"R","a","t","i","n","g",":"," ","8","9","/","1","0">>
    /\ score = 8

(* C6: the knowledge base lookup answers every (topic, level) with a       *)
(* non-empty list: the table's list in table order when the pair is in     *)
(* the table, the one-element sentinel list otherwise; sample-questions    *)
(* returns that list unchanged with the topic and level echoed.            *)
C6_LookupTotal ==
    last.endpoint = "sample-questions" =>
        LET t == last.request.topic
            l == last.request.level
        IN  /\ last.status = 200
            /\ last.response.topic = t
            /\ last.response.level = l
            /\ Len(last.response.questions) > 0
            /\ last.response.questions =
                 IF Present(t, l) THEN knowledge_base[t][l]
                 ELSE <<"No questions found for the specified topic and level">>

C6_Witness ==
    /\ last.endpoint = "sample-questions"
    /\ last.request.topic = "microservices"
    /\ last.request.level = "junior"
    /\ last.response.questions = <<NoQuestionsFound>>

(* C7: every start-interview request that returns a response has written   *)
(* a session for its candidate to the session store, after gateway         *)
(* success and after the fallback alike.                                   *)
C7_SessionWrittenOnEveryStart ==
    (last.endpoint = "start-interview" /\ last.status = 200) =>
        /\ \E k \in 1..Len(last.trace) : last.trace[k] = "store_write"
        /\ \E id \in DOMAIN current_interview_session :
              current_interview_session[id].candidate =
                 last.request.candidate_name

(* C8: each request to a gateway handler makes exactly one gateway call,   *)
(* before it responds and with none after a failure; sample-questions      *)
(* and health make none.                                                   *)
C8_OneGatewayCallPerRequest ==
    [][handled' # handled =>
         /\ last'.endpoint \in LlmEndpoints =>
              /\ gateway_calls' = gateway_calls + 1
              /\ Count(last'.trace, "gateway_call") = 1
              /\ \E j, k \in 1..Len(last'.trace) :
                    /\ j < k
                    /\ last'.trace[j] = "gateway_call"
                    /\ last'.trace[k] = "respond"
         /\ last'.endpoint \in {"sample-questions", "health"} =>
              /\ gateway_calls' = gateway_calls
              /\ Count(last'.trace, "gateway_call") = 0]_vars

C8_Witness ==
    /\ handled = 2
    /\ gateway_calls = 1
    /\ last.endpoint = "next-question"
    /\ ~last.outcome.ok

(* C9: only start-interview changes the session store; no handler reads    *)
(* it and no step removes a session id from it.                            *)
C9_StoreChangedOnlyByStart ==
    [][/\ current_interview_session' # current_interview_session =>
            (handled' = handled + 1 /\ last'.endpoint = "start-interview")
       /\ DOMAIN current_interview_session \subseteq
            DOMAIN current_interview_session'
       /\ \A k \in 1..Len(last'.trace) : last'.trace[k] # "store_read"]_vars

C9_Witness ==
    /\ handled = 2
    /\ Cardinality(DOMAIN current_interview_session) = 2

(* C10: every stored session has no responses and exactly one question,    *)
(* typed technical, whose difficulty is the session's level and whose      *)
(* topic is the first focus area, "core_java" when there is none.          *)
C10_SessionShape ==
    \A id \in DOMAIN current_interview_session :
        LET session == current_interview_session[id]
        IN  /\ session.responses = <<>>
            /\ Len(session.questions_asked) = 1
            /\ session.questions_asked[1].question_type = "technical"
            /\ session.questions_asked[1].difficulty = session.level
            /\ session.questions_asked[1].topic =
                 IF Len(session.focus_areas) = 0 THEN "core_java"
                 ELSE session.focus_areas[1]

C10_Witness ==
    /\ Cardinality(DOMAIN current_interview_session) = 2
    /\ \E id \in DOMAIN current_interview_session :
          /\ current_interview_session[id].focus_areas = <<>>
          /\ current_interview_session[id].level = "senior"
    /\ \E id \in DOMAIN current_interview_session :
          current_interview_session[id].focus_areas =
             <<"microservices", "database">>

StartSucceeded ==
    /\ handled' = handled + 1
    /\ last'.endpoint = "start-interview"
    /\ last'.outcome.ok

(* C11: a start-interview request whose gateway call succeeded leaves      *)
(* under its session id exactly its own complete record, also when an      *)
(* earlier request already wrote under the same id (same candidate name,   *)
(* same timestamp), and leaves every other entry alone; the store never    *)
(* holds more entries than there were such requests.                       *)
C11_LastWriteWins ==
    [][/\ StartSucceeded =>
            LET id == <<last'.request.candidate_name, "_", now>>
            IN  /\ DOMAIN current_interview_session' =
                     DOMAIN current_interview_session \cup {id}
                /\ current_interview_session'[id] =
                     [candidate |-> last'.request.candidate_name,
                      level |-> last'.request.experience_level,
                      focus_areas |-> last'.request.focus_areas,
                      questions_asked |-> <<last'.response>>,
                      responses |-> <<>>]
                /\ \A other \in DOMAIN current_interview_session \ {id} :
                      current_interview_session'[other] =
                         current_interview_session[other]
                /\ session_writes' = session_writes + 1
       /\ ~StartSucceeded => session_writes' = session_writes
       /\ Cardinality(DOMAIN current_interview_session') <= session_writes']_vars

(* two successful requests of one candidate at one timestamp, the second   *)
(* with another level than a first could have had                          *)
C11_Witness ==
    /\ session_writes = 2
    /\ handled = 2
    /\ Cardinality(DOMAIN current_interview_session) = 1
    /\ last.endpoint = "start-interview"
    /\ last.outcome.ok
    /\ \A id \in DOMAIN current_interview_session :
          /\ current_interview_session[id].candidate =
               last.request.candidate_name
          /\ current_interview_session[id].level =
               last.request.experience_level
          /\ current_interview_session[id].questions_asked =
               <<last.response>>

====
